---- MODULE Spec2Model ----
(***************************************************************************)
(* Model of the Reflect runtime reflection library (src/src/reflect.h):    *)
(* the DrReflect singleton (classes / members maps), the list of           *)
(* registration functions drained by InitializeReflection, the lookup      *)
(* functions GetClassData / GetMemberData, the meta data accessors and the *)
(* typed GetValue / SetValue accessors working on raw instance memory.     *)
(*                                                                         *)
(* Strings that the code transforms (names, titles) are sequences of       *)
(* one-character strings; opaque strings (meta data values) are strings.   *)
(* assert() is modelled as compiled in: a failed assertion aborts the      *)
(* process (pc = "abort").                                                 *)
(***************************************************************************)
EXTENDS Integers, Sequences, FiniteSets, TLC

VARIABLES pc, g_register_list, g_reflect, inst, last, ops

vars == <<pc, g_register_list, g_reflect, inst, last, ops>>

----------------------------------------------------------------------------
(* Bounds of the model *)

\* Number of API calls made by main() after static initialisation.
MaxOps == 3

\* Each memory cell of an instance holds a value in 0 .. CellMod - 1.
CellMod == 2

----------------------------------------------------------------------------
(* Type hashes: typeid(T).hash_code(), one distinct non-zero value per type *)

MEMBER_TYPE_UNKNOWN == 0
HashWidget == 1
HashGadget == 2
MEMBER_TYPE_INT == 3
MEMBER_TYPE_CHAR == 4

META_DATA_DESCRIPTION == 0

ClassTypes == {HashWidget, HashGadget}
ValueTypes == {MEMBER_TYPE_INT, MEMBER_TYPE_CHAR}

\* sizeof(T) in memory cells
Sizeof(t) == IF t = MEMBER_TYPE_INT THEN 2 ELSE IF t = MEMBER_TYPE_CHAR THEN 1 ELSE 0

----------------------------------------------------------------------------
(* Strings *)

Lower == <<"a","b","c","d","e","f","g","h","i","j","k","l","m",
           "n","o","p","q","r","s","t","u","v","w","x","y","z">>
Upper == <<"A","B","C","D","E","F","G","H","I","J","K","L","M",
           "N","O","P","Q","R","S","T","U","V","W","X","Y","Z">>
Digits == {"0","1","2","3","4","5","6","7","8","9"}

islower(c) == \E i \in 1..Len(Lower) : Lower[i] = c
isupper(c) == \E i \in 1..Len(Upper) : Upper[i] = c
isalpha(c) == islower(c) \/ isupper(c)
isnumber(c) == c \in Digits
toupper(c) == IF islower(c) THEN Upper[CHOOSE i \in 1..Len(Lower) : Lower[i] = c] ELSE c

\* std::replace(name.begin(), name.end(), '_', ' ') followed by the
\* capitalisation loop: position 1 always, position c when c-1 is a space.
\* The loop reads name[c - 1] after it may have been upper-cased, which
\* never turns it into or away from a space.
Capitalize(name) ==
    LET spaced == [c \in 1..Len(name) |-> IF name[c] = "_" THEN " " ELSE name[c]]
    IN  [c \in 1..Len(name) |->
            IF c = 1 \/ spaced[c - 1] = " " THEN toupper(spaced[c]) ELSE spaced[c]]

RECURSIVE SpaceWords(_, _)
\* The second loop of CreateTitle from position c on: a space goes before
\* name[c] at a lower->upper or a letter->digit transition.
SpaceWords(name, c) ==
    IF c > Len(name) THEN <<>>
    ELSE (IF (islower(name[c - 1]) /\ isupper(name[c]))
             \/ (isalpha(name[c - 1]) /\ isnumber(name[c]))
          THEN <<" ", name[c]>> ELSE <<name[c]>>) \o SpaceWords(name, c + 1)

\* CreateTitle(std::string& name). On the empty string name[0] is the
\* terminating '\0', which "title += name[0]" appends: the result has length 1.
CreateTitle(name) ==
    IF Len(name) = 0 THEN <<"\\0">>
    ELSE LET cap == Capitalize(name) IN <<cap[1]>> \o SpaceWords(cap, 2)

NameUnknown == <<"u","n","k","n","o","w","n">>
NameWidget == <<"W","i","d","g","e","t">>
NameGadget == <<"G","a","d","g","e","t","2">>
NameNope == <<"N","o","p","e">>
NameCount == <<"c","o","u","n","t">>
NameIsOn == <<"i","s","_","o","n">>
TitleOverride == <<"T">>
\* A macro argument written as a string literal, as in
\* MEMBER_META_TITLE("Object Position"): #STRING keeps the quotes
TitleLiteral == <<"\"", "T", "\"">>

----------------------------------------------------------------------------
(* Maps *)

EmptyMap == <<>>

\* map[k] = v of std::map / std::unordered_map
Put(map, k, v) == [x \in (DOMAIN map) \cup {k} |-> IF x = k THEN v ELSE map[x]]

----------------------------------------------------------------------------
(* Class / Member type data *)

\* ClassData with its default member initialisers
NewClassData ==
    [name |-> NameUnknown, title |-> NameUnknown, hash_code |-> 0,
     member_count |-> 0, meta_int_map |-> EmptyMap, meta_string_map |-> EmptyMap]

\* MemberData with its default member initialisers
NewMemberData ==
    [name |-> NameUnknown, title |-> NameUnknown, index |-> -1, hash_code |-> 0,
     offset |-> 0, size |-> 0, meta_int_map |-> EmptyMap, meta_string_map |-> EmptyMap]

unknown_class == NewClassData
unknown_member == NewMemberData

\* A freshly constructed DrReflect
NewDrReflect == [classes |-> EmptyMap, members |-> EmptyMap]

\* Mutation of AddClassAssert: the assertion is missing
AddClassAssert_None(class_data) == TRUE

\* First assertion of AddClass
AddClassAssert(class_data) == class_data.hash_code # 0

\* Mutation of AddClass: insert() semantics, an existing entry is kept
AddClass_InsertOnly(R, class_data) ==
    IF class_data.hash_code \in DOMAIN R.classes THEN R
    ELSE [R EXCEPT !.classes = Put(R.classes, class_data.hash_code, class_data)]

\* classes[class_data.hash_code] = class_data
AddClass(R, class_data) ==
    [R EXCEPT !.classes = Put(R.classes, class_data.hash_code, class_data)]

\* Mutation of AddMemberAssert: the "never registered" assertion is missing
AddMemberAssert_HashOnly(R, class_data) == class_data.hash_code # 0

\* The two assertions of AddMember
AddMemberAssert(R, class_data) ==
    /\ class_data.hash_code # 0
    /\ class_data.hash_code \in DOMAIN R.classes

\* Mutation of AddMember: the member map is keyed by index, not by offset
AddMember_KeyByIndex(R, class_data, member_data) ==
    LET h == class_data.hash_code
        old == IF h \in DOMAIN R.members THEN R.members[h] ELSE EmptyMap
        new == Put(old, member_data.index, member_data)
        cls == IF h \in DOMAIN R.classes THEN R.classes[h] ELSE NewClassData
    IN  [classes |-> Put(R.classes, h, [cls EXCEPT !.member_count = Cardinality(DOMAIN new)]),
         members |-> Put(R.members, h, new)]

\* Mutation of AddMember: the passed class_data is stored as the class' entry
AddMember_StoreClass(R, class_data, member_data) ==
    LET h == class_data.hash_code
        old == IF h \in DOMAIN R.members THEN R.members[h] ELSE EmptyMap
        new == Put(old, member_data.offset, member_data)
    IN  [classes |-> Put(R.classes, h,
                         [class_data EXCEPT !.member_count = Cardinality(DOMAIN new)]),
         members |-> Put(R.members, h, new)]

\* members[h][member_data.offset] = member_data;
\* classes[h].member_count = members[h].size()
\* (operator[] creates members[h], and classes[h], when the key has no entry)
AddMember(R, class_data, member_data) ==
    LET h == class_data.hash_code
        old == IF h \in DOMAIN R.members THEN R.members[h] ELSE EmptyMap
        new == Put(old, member_data.offset, member_data)
        cls == IF h \in DOMAIN R.classes THEN R.classes[h] ELSE NewClassData
    IN  [classes |-> Put(R.classes, h, [cls EXCEPT !.member_count = Cardinality(DOMAIN new)]),
         members |-> Put(R.members, h, new)]

----------------------------------------------------------------------------
(* Meta data user info *)

\* A meta data key is an int or a std::string (two overloads, two maps)
IntKey(k) == [kind |-> "int", i |-> k, s |-> ""]
StringKey(k) == [kind |-> "string", i |-> 0, s |-> k]

\* Mutation of SetClassMeta: a key that is present keeps its data (insert()
\* instead of operator[] assignment)
SetClassMeta_InsertOnly(class_data, key, data) ==
    IF class_data.hash_code # 0
    THEN IF key.kind = "int"
         THEN (IF key.i \in DOMAIN class_data.meta_int_map THEN class_data
               ELSE [class_data EXCEPT !.meta_int_map = Put(@, key.i, data)])
         ELSE (IF key.s \in DOMAIN class_data.meta_string_map THEN class_data
               ELSE [class_data EXCEPT !.meta_string_map = Put(@, key.s, data)])
    ELSE class_data

\* SetClassMeta(ClassData&, int / std::string key, std::string data): the
\* overload is selected by the key's type; returns the referenced object
\* after the call.
SetClassMeta(class_data, key, data) ==
    IF class_data.hash_code # 0
    THEN IF key.kind = "int"
         THEN [class_data EXCEPT !.meta_int_map = Put(@, key.i, data)]
         ELSE [class_data EXCEPT !.meta_string_map = Put(@, key.s, data)]
    ELSE class_data

\* GetClassMeta(ClassData&, int / std::string key)
GetClassMeta(class_data, key) ==
    IF class_data.hash_code # 0
    THEN IF key.kind = "int"
         THEN (IF key.i \in DOMAIN class_data.meta_int_map
               THEN class_data.meta_int_map[key.i] ELSE "")
         ELSE (IF key.s \in DOMAIN class_data.meta_string_map
               THEN class_data.meta_string_map[key.s] ELSE "")
    ELSE ""

\* SetMemberMeta(MemberData&, int / std::string key, std::string data)
SetMemberMeta(member_data, key, data) ==
    IF member_data.hash_code # 0
    THEN IF key.kind = "int"
         THEN [member_data EXCEPT !.meta_int_map = Put(@, key.i, data)]
         ELSE [member_data EXCEPT !.meta_string_map = Put(@, key.s, data)]
    ELSE member_data

\* GetMemberMeta(MemberData&, int / std::string key)
GetMemberMeta(member_data, key) ==
    IF member_data.hash_code # 0
    THEN IF key.kind = "int"
         THEN (IF key.i \in DOMAIN member_data.meta_int_map
               THEN member_data.meta_int_map[key.i] ELSE "")
         ELSE (IF key.s \in DOMAIN member_data.meta_string_map
               THEN member_data.meta_string_map[key.s] ELSE "")
    ELSE ""

----------------------------------------------------------------------------
(* Registration macros.  A registration function InitiateClass<TYPE> is the *)
(* sequence of macro invocations between REFLECT_CLASS and REFLECT_END; its *)
(* frame holds the locals class_data, member_index and mbrs, the registry R *)
(* it writes to, and ok = no assertion has failed so far.                   *)

\* Both reflected structs are declared  struct { int count; char is_on; }
\* typeid(T::MEMBER).hash_code()
TypeOfMember(member) == IF member = NameCount THEN MEMBER_TYPE_INT ELSE MEMBER_TYPE_CHAR
\* offsetof(T, MEMBER)
Offsetof(member) == IF member = NameCount THEN 0 ELSE Sizeof(MEMBER_TYPE_INT)
\* sizeof(T)
SizeofClass == Sizeof(MEMBER_TYPE_INT) + Sizeof(MEMBER_TYPE_CHAR)

\* RegisterClass(class_data) inside a registration function
FrameRegisterClass(F) ==
    IF AddClassAssert(F.class_data)
    THEN [F EXCEPT !.R = AddClass(F.R, F.class_data)]
    ELSE [F EXCEPT !.ok = FALSE]

\* RegisterMember(class_data, mbrs[member_index]) inside a registration function
FrameRegisterMember(F) ==
    IF AddMemberAssert(F.R, F.class_data)
    THEN [F EXCEPT !.R = AddMember(F.R, F.class_data, F.mbrs[F.member_index])]
    ELSE [F EXCEPT !.ok = FALSE]

\* mbrs[member_index] of the std::unordered_map: creates a default entry
MbrsAt(F) ==
    IF F.member_index \in DOMAIN F.mbrs THEN F
    ELSE [F EXCEPT !.mbrs = Put(F.mbrs, F.member_index, NewMemberData)]

REFLECT_CLASS(F, step) ==
    FrameRegisterClass(
        [F EXCEPT !.class_data = [NewClassData EXCEPT !.name = step.name,
                                                      !.hash_code = step.type,
                                                      !.title = CreateTitle(step.name)],
                  !.member_index = -1,
                  !.mbrs = EmptyMap])

CLASS_META_TITLE(F, step) ==
    FrameRegisterClass([F EXCEPT !.class_data.title = step.title])

\* Mutation of CLASS_META_DATA: the local class_data is changed but not
\* registered again
CLASS_META_DATA_NoRegister(F, step) ==
    [F EXCEPT !.class_data = SetClassMeta(F.class_data, step.key, step.value)]

CLASS_META_DATA(F, step) ==
    FrameRegisterClass(
        [F EXCEPT !.class_data = SetClassMeta(F.class_data, step.key, step.value)])

\* Mutation of REFLECT_MEMBER: the stored index is the member's offset
REFLECT_MEMBER_IndexByOffset(F, step) ==
    LET i == F.member_index + 1
        m == [NewMemberData EXCEPT !.name = step.member,
                                   !.index = Offsetof(step.member),
                                   !.hash_code = TypeOfMember(step.member),
                                   !.offset = Offsetof(step.member),
                                   !.size = Sizeof(TypeOfMember(step.member)),
                                   !.title = CreateTitle(step.member)]
    IN  FrameRegisterMember([F EXCEPT !.member_index = i, !.mbrs = Put(F.mbrs, i, m)])

REFLECT_MEMBER(F, step) ==
    LET i == F.member_index + 1
        m == [NewMemberData EXCEPT !.name = step.member,
                                   !.index = i,
                                   !.hash_code = TypeOfMember(step.member),
                                   !.offset = Offsetof(step.member),
                                   !.size = Sizeof(TypeOfMember(step.member)),
                                   !.title = CreateTitle(step.member)]
    IN  FrameRegisterMember([F EXCEPT !.member_index = i, !.mbrs = Put(F.mbrs, i, m)])

MEMBER_META_TITLE(F, step) ==
    LET G == MbrsAt(F)
    IN  FrameRegisterMember([G EXCEPT !.mbrs[G.member_index].title = step.title])

MEMBER_META_DATA(F, step) ==
    LET G == MbrsAt(F)
    IN  FrameRegisterMember(
            [G EXCEPT !.mbrs[G.member_index] =
                          SetMemberMeta(G.mbrs[G.member_index], step.key, step.value)])

\* One macro invocation; nothing runs once an assertion has aborted the process
RunMacro(F, step) ==
    IF ~F.ok THEN F
    ELSE CASE step.macro = "REFLECT_CLASS" -> REFLECT_CLASS(F, step)
           [] step.macro = "CLASS_META_TITLE" -> CLASS_META_TITLE(F, step)
           [] step.macro = "CLASS_META_DATA" -> CLASS_META_DATA(F, step)
           [] step.macro = "REFLECT_MEMBER" -> REFLECT_MEMBER(F, step)
           [] step.macro = "MEMBER_META_TITLE" -> MEMBER_META_TITLE(F, step)
           [] OTHER -> MEMBER_META_DATA(F, step)

RECURSIVE RunMacros(_, _, _)
RunMacros(F, body, i) ==
    IF i > Len(body) THEN F ELSE RunMacros(RunMacro(F, body[i]), body, i + 1)

\* The registration functions of the two reflected structs
InitiateWidget ==
    << [macro |-> "REFLECT_CLASS", type |-> HashWidget, name |-> NameWidget],
       [macro |-> "CLASS_META_DATA", key |-> IntKey(META_DATA_DESCRIPTION), value |-> "a"],
       [macro |-> "REFLECT_MEMBER", member |-> NameCount],
       [macro |-> "MEMBER_META_DATA", key |-> StringKey("icon"), value |-> "a"],
       [macro |-> "REFLECT_MEMBER", member |-> NameIsOn],
       [macro |-> "MEMBER_META_TITLE", title |-> TitleOverride] >>

InitiateGadget ==
    << [macro |-> "REFLECT_CLASS", type |-> HashGadget, name |-> NameGadget],
       [macro |-> "CLASS_META_TITLE", title |-> TitleOverride],
       [macro |-> "REFLECT_MEMBER", member |-> NameIsOn],
       [macro |-> "REFLECT_MEMBER", member |-> NameCount],
       [macro |-> "MEMBER_META_TITLE", title |-> TitleLiteral] >>

RECURSIVE DeclaredMembers(_, _)
\* The MEMBER arguments of the REFLECT_MEMBER invocations of a registration
\* function, in declaration order
DeclaredMembers(body, i) ==
    IF i > Len(body) THEN <<>>
    ELSE (IF body[i].macro = "REFLECT_MEMBER" THEN <<body[i].member>> ELSE <<>>)
         \o DeclaredMembers(body, i + 1)

\* InitiateClass<TYPE>, by the type it registers
InitiateClass(type) == IF type = HashWidget THEN InitiateWidget ELSE InitiateGadget

\* g_register_list[func]() : runs one registration function against R, unless
\* an assertion has already aborted the process; called lists the functions
\* invoked so far
CallRegistration(S, type) ==
    LET F == RunMacros([R |-> S.R, ok |-> S.ok, class_data |-> NewClassData,
                        member_index |-> -1, mbrs |-> EmptyMap],
                       InitiateClass(type), 1)
    IN  [R |-> F.R, ok |-> F.ok,
         called |-> IF S.ok THEN Append(S.called, type) ELSE S.called]

RECURSIVE RunRegisterList_Reversed(_, _, _)
\* Mutation of RunRegisterList: the list is walked from its last element
RunRegisterList_Reversed(S, list, func) ==
    IF func > Len(list) THEN S
    ELSE RunRegisterList_Reversed(CallRegistration(S, list[Len(list) + 1 - func]),
                                  list, func + 1)

RECURSIVE RunRegisterList_SkipLast(_, _, _)
\* Mutation of RunRegisterList: the loop ends one element early
RunRegisterList_SkipLast(S, list, func) ==
    IF func > Len(list) - 1 THEN S
    ELSE RunRegisterList_SkipLast(CallRegistration(S, list[func]), list, func + 1)

RECURSIVE RunRegisterList(_, _, _)
\* for (func = 0; func < g_register_list.size(); ++func) g_register_list[func]();
RunRegisterList(S, list, func) ==
    IF func > Len(list) THEN S
    ELSE RunRegisterList(CallRegistration(S, list[func]), list, func + 1)

----------------------------------------------------------------------------
(* Type data fetching.  A fetch returns a reference: into the registry's    *)
(* classes / members maps, or to the static unknown_class / unknown_member. *)

ClassRef(hash_id) == [kind |-> "classes", hash |-> hash_id]
UnknownClassRef == [kind |-> "unknown_class", hash |-> 0]
MemberRef(hash_id, offset) == [kind |-> "members", hash |-> hash_id, offset |-> offset]
UnknownMemberRef == [kind |-> "unknown_member", hash |-> 0, offset |-> 0]

\* The object a ClassData& refers to
DerefClass(R, ref) ==
    IF ref.kind = "classes" THEN R.classes[ref.hash] ELSE unknown_class

\* The object a MemberData& refers to
DerefMember(R, ref) ==
    IF ref.kind = "members" THEN R.members[ref.hash][ref.offset] ELSE unknown_member

\* template<typename T> ClassData& GetClassData(): find() on the class' hash
GetClassDataT(R, class_hash_id) ==
    IF class_hash_id \in DOMAIN R.classes THEN ClassRef(class_hash_id) ELSE UnknownClassRef

\* Mutation of GetClassDataHash: a scan that finds no equal key returns a
\* pair it visited instead of unknown_class
GetClassDataHash_VisitedOnMiss(R, hash_id) ==
    IF \E h \in DOMAIN R.classes : h = hash_id THEN ClassRef(hash_id)
    ELSE IF DOMAIN R.classes = {} THEN UnknownClassRef
    ELSE ClassRef(CHOOSE h \in DOMAIN R.classes : TRUE)

\* ClassData& GetClassData(HashID hash_id): scan for pair.first == hash_id
GetClassDataHash(R, hash_id) ==
    IF \E h \in DOMAIN R.classes : h = hash_id THEN ClassRef(hash_id) ELSE UnknownClassRef

\* Mutation of GetClassDataName: the scan compares the title with the key
GetClassDataName_ByTitle(R, class_name) ==
    LET hits == {h \in DOMAIN R.classes : R.classes[h].title = class_name}
    IN  IF hits = {} THEN {UnknownClassRef} ELSE {ClassRef(h) : h \in hits}

\* Mutation of GetClassDataName: a scan that falls through returns the pair
\* it visited last instead of unknown_class
GetClassDataName_LastVisited(R, class_name) ==
    LET hits == {h \in DOMAIN R.classes : R.classes[h].name = class_name}
    IN  IF hits # {} THEN {ClassRef(h) : h \in hits}
        ELSE IF DOMAIN R.classes = {} THEN {UnknownClassRef}
        ELSE {ClassRef(h) : h \in DOMAIN R.classes}

\* ClassData& GetClassData(std::string class_name): the first pair, in the
\* unspecified iteration order of the unordered_map, whose name matches.
\* The set of references the scan can return.
GetClassDataName(R, class_name) ==
    LET hits == {h \in DOMAIN R.classes : R.classes[h].name = class_name}
    IN  IF hits = {} THEN {UnknownClassRef} ELSE {ClassRef(h) : h \in hits}

\* g_reflect->members[class_hash_id]: operator[] inserts an empty MemberMap
\* for a class hash that has none
MembersAt(R, class_hash_id) ==
    IF class_hash_id \in DOMAIN R.members THEN R
    ELSE [R EXCEPT !.members = Put(R.members, class_hash_id, EmptyMap)]

\* Mutation of KeysBelow: the map iterates from the largest key down
KeysBelow_Descending(map, k) == {x \in DOMAIN map : x > k}

\* The keys of a std::map<int, MemberData> below a given key
KeysBelow(map, k) == {x \in DOMAIN map : x < k}

\* Mutation of GetMemberDataIndex: an index past the end is clamped to the
\* last entry
GetMemberDataIndex_Clamped(R, class_hash_id, member_index) ==
    LET S == MembersAt(R, class_hash_id)
        map == S.members[class_hash_id]
        n == Cardinality(DOMAIN map)
        at == IF member_index >= n THEN n - 1 ELSE member_index
        hits == {o \in DOMAIN map : Cardinality(KeysBelow(map, o)) = at}
    IN  [R |-> S,
         ref |-> IF hits = {} THEN UnknownMemberRef
                 ELSE MemberRef(class_hash_id, CHOOSE o \in hits : TRUE)]

\* Mutation of GetMemberDataIndex: the entry whose stored index equals
\* member_index is returned
GetMemberDataIndex_ByStoredIndex(R, class_hash_id, member_index) ==
    LET S == MembersAt(R, class_hash_id)
        map == S.members[class_hash_id]
        hits == {o \in DOMAIN map : map[o].index = member_index}
    IN  [R |-> S,
         ref |-> IF hits = {} THEN UnknownMemberRef
                 ELSE MemberRef(class_hash_id,
                                CHOOSE o \in hits : \A p \in hits : o <= p)]

\* MemberData& GetMemberData(HashID class_hash_id, int member_index): the
\* entry reached after member_index increments of the in-order iteration
GetMemberDataIndex(R, class_hash_id, member_index) ==
    LET S == MembersAt(R, class_hash_id)
        map == S.members[class_hash_id]
        hits == {o \in DOMAIN map : Cardinality(KeysBelow(map, o)) = member_index}
    IN  [R |-> S,
         ref |-> IF hits = {} THEN UnknownMemberRef
                 ELSE MemberRef(class_hash_id, CHOOSE o \in hits : TRUE)]

\* Mutation of GetMemberDataName: the scan does not stop at the first match
\* and returns the last one
GetMemberDataName_LastMatch(R, class_hash_id, member_name) ==
    LET S == MembersAt(R, class_hash_id)
        map == S.members[class_hash_id]
        hits == {o \in DOMAIN map : map[o].name = member_name}
    IN  [R |-> S,
         ref |-> IF hits = {} THEN UnknownMemberRef
                 ELSE MemberRef(class_hash_id,
                                CHOOSE o \in hits : \A p \in hits : o >= p)]

\* Mutation of GetMemberDataName: the scan compares the title with the key
GetMemberDataName_ByTitle(R, class_hash_id, member_name) ==
    LET S == MembersAt(R, class_hash_id)
        map == S.members[class_hash_id]
        hits == {o \in DOMAIN map : map[o].title = member_name}
    IN  [R |-> S,
         ref |-> IF hits = {} THEN UnknownMemberRef
                 ELSE MemberRef(class_hash_id,
                                CHOOSE o \in hits : \A p \in hits : o <= p)]

\* MemberData& GetMemberData(HashID class_hash_id, std::string member_name):
\* the first entry of the in-order iteration whose name matches
GetMemberDataName(R, class_hash_id, member_name) ==
    LET S == MembersAt(R, class_hash_id)
        map == S.members[class_hash_id]
        hits == {o \in DOMAIN map : map[o].name = member_name}
    IN  [R |-> S,
         ref |-> IF hits = {} THEN UnknownMemberRef
                 ELSE MemberRef(class_hash_id,
                                CHOOSE o \in hits : \A p \in hits : o <= p)]

----------------------------------------------------------------------------
(* Member variable values.  An instance is SizeofClass memory cells; a      *)
(* value of type T occupies Sizeof(T) cells from its offset, low cell first *)

RECURSIVE Power(_, _)
Power(b, n) == IF n = 0 THEN 1 ELSE b * Power(b, n - 1)

\* The values a variable of type t can hold
ValuesOf(t) == 0 .. (Power(CellMod, Sizeof(t)) - 1)

RECURSIVE ReadCells(_, _, _, _)
ReadCells(mem, offset, n, i) ==
    IF i = n THEN 0 ELSE mem[offset + i] + CellMod * ReadCells(mem, offset, n, i + 1)

\* *(reinterpret_cast<T*>(class_ptr + offset)): reads Sizeof(T) cells
ReadAs(mem, offset, t) == ReadCells(mem, offset, Sizeof(t), 0)

\* existing = value through a T& at class_ptr + offset: writes Sizeof(T) cells
WriteAs(mem, offset, t, value) ==
    [a \in DOMAIN mem |->
        IF a >= offset /\ a < offset + Sizeof(t)
        THEN (value \div Power(CellMod, a - offset)) % CellMod
        ELSE mem[a]]

\* Mutation of InternalGetValueAssert: the "unknown" assertion is missing
InternalGetValueAssert_NoNameCheck(member_data, ReturnType) ==
    IF member_data.hash_code # ReturnType THEN "Did not request correct return type!"
    ELSE ""

\* The two assertions of InternalGetValue<ReturnType>: the message of the
\* first one that fails, "" when both hold
InternalGetValueAssert(member_data, ReturnType) ==
    IF member_data.name = NameUnknown THEN "Could not find member variable!"
    ELSE IF member_data.hash_code # ReturnType THEN "Did not request correct return type!"
    ELSE ""

\* Mutation of InternalGetValue: the offset is not added to class_ptr
InternalGetValue_NoOffset(mem, member_data, ReturnType) ==
    ReadAs(mem, 0, ReturnType)

\* InternalGetValue<ReturnType>(char* class_ptr, MemberData member_data)
InternalGetValue(mem, member_data, ReturnType) ==
    ReadAs(mem, member_data.offset, ReturnType)

\* Mutation of InternalSetValueAssert: the type assertion is missing
InternalSetValueAssert_NoTypeCheck(member_data, MemberType) ==
    IF member_data.name = NameUnknown THEN "Could not find member variable!"
    ELSE ""

\* The two assertions of InternalSetValue<MemberType>: the message of the
\* first one that fails, "" when both hold
InternalSetValueAssert(member_data, MemberType) ==
    IF member_data.name = NameUnknown THEN "Could not find member variable!"
    ELSE IF member_data.hash_code # MemberType THEN "Did not pass correct value type!"
    ELSE ""

\* Mutation of InternalSetValue: the offset is not added to class_ptr
InternalSetValue_NoOffset(mem, member_data, MemberType, value) ==
    WriteAs(mem, 0, MemberType, value)

\* InternalSetValue<MemberType>(char* class_ptr, MemberData member_data, value)
InternalSetValue(mem, member_data, MemberType, value) ==
    WriteAs(mem, member_data.offset, MemberType, value)

----------------------------------------------------------------------------
(* Inputs of the calls made by main() *)

HashInputs == {0} \cup ClassTypes
\* The structs main() holds an instance of
InstanceTypes == {HashWidget}
ClassNameInputs == {NameWidget, NameGadget, NameNope}
MemberNameInputs == {NameCount, NameIsOn, NameUnknown, NameNope}
IndexInputs == -1 .. 2
MetaKeyInputs == {IntKey(META_DATA_DESCRIPTION), StringKey("icon")}
MetaDataInputs == {"a", "b"}

\* ClassData objects a caller passes to RegisterClass
ClassInputs ==
    {NewClassData} \cup
    {[NewClassData EXCEPT !.hash_code = h, !.name = n, !.title = CreateTitle(n),
                          !.member_count = c] :
        h \in ClassTypes, n \in {NameWidget, NameGadget}, c \in {0, 1}} \cup
    {[NewClassData EXCEPT !.hash_code = h, !.name = n, !.title = CreateTitle(n),
                          !.meta_int_map = Put(EmptyMap, META_DATA_DESCRIPTION, "b")] :
        h \in ClassTypes, n \in {NameWidget, NameGadget}}

\* ClassData objects a caller passes to RegisterMember
ClassArgInputs ==
    {[NewClassData EXCEPT !.hash_code = h, !.name = NameNope, !.title = TitleOverride] :
        h \in HashInputs}

\* MemberData objects a caller passes to RegisterMember: a member of the
\* struct { int count; char is_on; } under any name, or a MemberData whose
\* type was never filled in
MemberInputs ==
    {[NewMemberData EXCEPT !.name = NameCount, !.title = CreateTitle(NameCount),
                           !.index = 0]} \cup
    {[NewMemberData EXCEPT !.name = n, !.title = CreateTitle(n), !.index = 1,
                           !.hash_code = TypeOfMember(m), !.offset = Offsetof(m),
                           !.size = Sizeof(TypeOfMember(m))] :
        n \in {NameCount, NameIsOn, NameUnknown}, m \in {NameCount, NameIsOn}}

----------------------------------------------------------------------------
(* Actions *)

nullptr == <<>>

Init ==
    /\ pc = "load"
    /\ g_register_list = <<>>
    /\ g_reflect = nullptr
    /\ inst = [h \in InstanceTypes |-> [a \in 0 .. (SizeofClass - 1) |-> 0]]
    /\ last = [op |-> "none"]
    /\ ops = 0

\* bool TYPE::reflection { initReflection() }: static initialisation of a
\* reflected struct appends its registration function, once per struct
initReflection(type) ==
    /\ pc = "load"
    /\ \A i \in 1..Len(g_register_list) : g_register_list[i] # type
    /\ g_register_list' = Append(g_register_list, type)
    /\ UNCHANGED <<pc, g_reflect, inst, last, ops>>

\* Static initialisation is over, main() starts
main ==
    /\ pc = "load"
    /\ pc' = "main"
    /\ UNCHANGED <<g_register_list, g_reflect, inst, last, ops>>

\* main() makes one more call
Call == pc = "main" /\ ops < MaxOps /\ ops' = ops + 1

\* g_reflect-> on the null shared_ptr
NullDeref == pc' = "fault" /\ UNCHANGED <<g_register_list, g_reflect, inst>>

\* A failed assert()
Abort == pc' = "abort" /\ UNCHANGED <<g_register_list, g_reflect, inst>>

\* Mutation of InitializeReflection: the list of registration functions is
\* cleared once they have run
InitializeReflection_ClearList ==
    /\ Call
    /\ LET S == RunRegisterList([R |-> NewDrReflect, ok |-> TRUE, called |-> <<>>],
                                g_register_list, 1)
       IN  /\ g_reflect' = <<S.R>>
           /\ pc' = IF S.ok THEN "main" ELSE "abort"
           /\ last' = [op |-> "InitializeReflection", called |-> S.called]
    /\ g_register_list' = <<>>
    /\ UNCHANGED inst

\* Mutation of InitializeReflection: the singleton is created only when
\* there is none yet
InitializeReflection_KeepRegistry ==
    /\ Call
    /\ LET S == RunRegisterList([R |-> IF g_reflect = nullptr THEN NewDrReflect
                                       ELSE g_reflect[1],
                                 ok |-> TRUE, called |-> <<>>],
                                g_register_list, 1)
       IN  /\ g_reflect' = <<S.R>>
           /\ pc' = IF S.ok THEN "main" ELSE "abort"
           /\ last' = [op |-> "InitializeReflection", called |-> S.called]
    /\ UNCHANGED <<g_register_list, inst>>

InitializeReflection ==
    /\ Call
    /\ LET S == RunRegisterList([R |-> NewDrReflect, ok |-> TRUE, called |-> <<>>],
                                g_register_list, 1)
       IN  /\ g_reflect' = <<S.R>>
           /\ pc' = IF S.ok THEN "main" ELSE "abort"
           /\ last' = [op |-> "InitializeReflection", called |-> S.called]
    /\ UNCHANGED <<g_register_list, inst>>

RegisterClass(class_data) ==
    /\ Call
    /\ last' = [op |-> "RegisterClass", class_data |-> class_data]
    /\ IF g_reflect = nullptr THEN NullDeref
       ELSE IF ~AddClassAssert(class_data) THEN Abort
       ELSE /\ g_reflect' = <<AddClass(g_reflect[1], class_data)>>
            /\ UNCHANGED <<pc, g_register_list, inst>>

RegisterMember(class_data, member_data) ==
    /\ Call
    /\ last' = [op |-> "RegisterMember", class_data |-> class_data,
                member_data |-> member_data]
    /\ IF g_reflect = nullptr THEN NullDeref
       ELSE IF ~AddMemberAssert(g_reflect[1], class_data) THEN Abort
       ELSE /\ g_reflect' = <<AddMember(g_reflect[1], class_data, member_data)>>
            /\ UNCHANGED <<pc, g_register_list, inst>>

\* GetClassData<T>() and GetClassData(T& class_instance)
GetClassData_T(class_hash_id) ==
    /\ Call
    /\ IF g_reflect = nullptr
       THEN NullDeref /\ last' = [op |-> "GetClassData", by |-> "type"]
       ELSE /\ LET ref == GetClassDataT(g_reflect[1], class_hash_id)
               IN  last' = [op |-> "GetClassData", by |-> "type", hash_id |-> class_hash_id,
                            ref |-> ref, ret |-> DerefClass(g_reflect[1], ref)]
            /\ UNCHANGED <<pc, g_register_list, g_reflect, inst>>

GetClassData_HashID(hash_id) ==
    /\ Call
    /\ IF g_reflect = nullptr
       THEN NullDeref /\ last' = [op |-> "GetClassData", by |-> "hash"]
       ELSE /\ LET ref == GetClassDataHash(g_reflect[1], hash_id)
               IN  last' = [op |-> "GetClassData", by |-> "hash", hash_id |-> hash_id,
                            ref |-> ref, ret |-> DerefClass(g_reflect[1], ref)]
            /\ UNCHANGED <<pc, g_register_list, g_reflect, inst>>

GetClassData_string(class_name) ==
    /\ Call
    /\ IF g_reflect = nullptr
       THEN NullDeref /\ last' = [op |-> "GetClassData", by |-> "name"]
       ELSE /\ \E ref \in GetClassDataName(g_reflect[1], class_name) :
                  last' = [op |-> "GetClassData", by |-> "name", class_name |-> class_name,
                           ref |-> ref, ret |-> DerefClass(g_reflect[1], ref)]
            /\ UNCHANGED <<pc, g_register_list, g_reflect, inst>>

GetMemberData_int(class_hash_id, member_index) ==
    /\ Call
    /\ IF g_reflect = nullptr
       THEN NullDeref /\ last' = [op |-> "GetMemberData", by |-> "index"]
       ELSE /\ LET got == GetMemberDataIndex(g_reflect[1], class_hash_id, member_index)
               IN  /\ g_reflect' = <<got.R>>
                   /\ last' = [op |-> "GetMemberData", by |-> "index",
                               hash_id |-> class_hash_id, member_index |-> member_index,
                               ref |-> got.ref, ret |-> DerefMember(got.R, got.ref)]
            /\ UNCHANGED <<pc, g_register_list, inst>>

GetMemberData_string(class_hash_id, member_name) ==
    /\ Call
    /\ IF g_reflect = nullptr
       THEN NullDeref /\ last' = [op |-> "GetMemberData", by |-> "name"]
       ELSE /\ LET got == GetMemberDataName(g_reflect[1], class_hash_id, member_name)
               IN  /\ g_reflect' = <<got.R>>
                   /\ last' = [op |-> "GetMemberData", by |-> "name",
                               hash_id |-> class_hash_id, member_name |-> member_name,
                               ref |-> got.ref, ret |-> DerefMember(got.R, got.ref)]
            /\ UNCHANGED <<pc, g_register_list, inst>>

\* ClassData& c = GetClassData(hash_id)  (by_reference)  or
\* ClassData  c = GetClassData(hash_id)  (a copy), then SetClassMeta(c, key, data)
CallSetClassMeta(hash_id, by_reference, key, data) ==
    /\ Call
    /\ IF g_reflect = nullptr
       THEN NullDeref /\ last' = [op |-> "SetClassMeta"]
       ELSE /\ LET ref == GetClassDataHash(g_reflect[1], hash_id)
                   new == SetClassMeta(DerefClass(g_reflect[1], ref), key, data)
               IN  /\ g_reflect' =
                          IF by_reference /\ ref.kind = "classes"
                          THEN <<[g_reflect[1] EXCEPT !.classes[ref.hash] = new]>>
                          ELSE g_reflect
                   /\ last' = [op |-> "SetClassMeta", ref |-> ref,
                               by_reference |-> by_reference, key |-> key, data |-> data]
            /\ UNCHANGED <<pc, g_register_list, inst>>

\* GetClassMeta(GetClassData(hash_id), key)
CallGetClassMeta(hash_id, key) ==
    /\ Call
    /\ IF g_reflect = nullptr
       THEN NullDeref /\ last' = [op |-> "GetClassMeta"]
       ELSE /\ LET ref == GetClassDataHash(g_reflect[1], hash_id)
               IN  last' = [op |-> "GetClassMeta", ref |-> ref, key |-> key,
                            ret |-> GetClassMeta(DerefClass(g_reflect[1], ref), key)]
            /\ UNCHANGED <<pc, g_register_list, g_reflect, inst>>

\* MemberData& m = GetMemberData(class_hash_id, member_index)  (by_reference) or
\* MemberData  m = GetMemberData(class_hash_id, member_index)  (a copy), then
\* SetMemberMeta(m, key, data)
CallSetMemberMeta(class_hash_id, member_index, by_reference, key, data) ==
    /\ Call
    /\ IF g_reflect = nullptr
       THEN NullDeref /\ last' = [op |-> "SetMemberMeta"]
       ELSE /\ LET got == GetMemberDataIndex(g_reflect[1], class_hash_id, member_index)
                   new == SetMemberMeta(DerefMember(got.R, got.ref), key, data)
               IN  /\ g_reflect' =
                          IF by_reference /\ got.ref.kind = "members"
                          THEN <<[got.R EXCEPT
                                     !.members[got.ref.hash][got.ref.offset] = new]>>
                          ELSE <<got.R>>
                   /\ last' = [op |-> "SetMemberMeta", ref |-> got.ref,
                               by_reference |-> by_reference, key |-> key, data |-> data]
            /\ UNCHANGED <<pc, g_register_list, inst>>

\* GetMemberMeta(GetMemberData(class_hash_id, member_index), key)
CallGetMemberMeta(class_hash_id, member_index, key) ==
    /\ Call
    /\ IF g_reflect = nullptr
       THEN NullDeref /\ last' = [op |-> "GetMemberMeta"]
       ELSE /\ LET got == GetMemberDataIndex(g_reflect[1], class_hash_id, member_index)
               IN  /\ g_reflect' = <<got.R>>
                   /\ last' = [op |-> "GetMemberMeta", ref |-> got.ref, key |-> key,
                               ret |-> GetMemberMeta(DerefMember(got.R, got.ref), key)]
            /\ UNCHANGED <<pc, g_register_list, inst>>

\* GetValue<ReturnType, ClassType>(ClassType& class_instance, int member_index)
\* on the instance of the class with hash class_hash_id
GetValue(class_hash_id, member_index, ReturnType) ==
    /\ Call
    /\ IF g_reflect = nullptr
       THEN NullDeref /\ last' = [op |-> "GetValue"]
       ELSE LET got == GetMemberDataIndex(g_reflect[1], class_hash_id, member_index)
                member_data == DerefMember(got.R, got.ref)
            IN  /\ g_reflect' = <<got.R>>
                /\ UNCHANGED <<g_register_list, inst>>
                /\ IF InternalGetValueAssert(member_data, ReturnType) = ""
                   THEN /\ pc' = pc
                        /\ last' = [op |-> "GetValue", class_ptr |-> class_hash_id,
                                    ref |-> got.ref, member_data |-> member_data,
                                    type |-> ReturnType,
                                    ret |-> InternalGetValue(inst[class_hash_id],
                                                             member_data, ReturnType)]
                   ELSE /\ pc' = "abort"
                        /\ last' = [op |-> "GetValue", class_ptr |-> class_hash_id,
                                    ref |-> got.ref, member_data |-> member_data,
                                    type |-> ReturnType,
                                    failed |-> InternalGetValueAssert(member_data,
                                                                      ReturnType)]

\* SetValue<MemberType, ClassType>(ClassType& class_instance, int member_index,
\* MemberType value) on the instance of the class with hash class_hash_id
SetValue(class_hash_id, member_index, MemberType, value) ==
    /\ Call
    /\ IF g_reflect = nullptr
       THEN NullDeref /\ last' = [op |-> "SetValue"]
       ELSE LET got == GetMemberDataIndex(g_reflect[1], class_hash_id, member_index)
                member_data == DerefMember(got.R, got.ref)
            IN  /\ g_reflect' = <<got.R>>
                /\ UNCHANGED g_register_list
                /\ last' = [op |-> "SetValue", class_ptr |-> class_hash_id,
                            ref |-> got.ref, member_data |-> member_data,
                            type |-> MemberType, value |-> value,
                            failed |-> InternalSetValueAssert(member_data, MemberType)]
                /\ IF InternalSetValueAssert(member_data, MemberType) = ""
                   THEN /\ pc' = pc
                        /\ inst' = [inst EXCEPT ![class_hash_id] =
                                       InternalSetValue(@, member_data, MemberType, value)]
                   ELSE /\ pc' = "abort"
                        /\ UNCHANGED inst

Next ==
    \/ \E type \in ClassTypes : initReflection(type)
    \/ main
    \/ InitializeReflection
    \/ \E class_data \in ClassInputs : RegisterClass(class_data)
    \/ \E class_data \in ClassArgInputs, member_data \in MemberInputs :
          RegisterMember(class_data, member_data)
    \/ \E h \in ClassTypes : GetClassData_T(h)
    \/ \E h \in HashInputs : GetClassData_HashID(h)
    \/ \E n \in ClassNameInputs : GetClassData_string(n)
    \/ \E h \in ClassTypes, i \in IndexInputs : GetMemberData_int(h, i)
    \/ \E h \in ClassTypes, n \in MemberNameInputs : GetMemberData_string(h, n)
    \/ \E h \in ClassTypes, r \in BOOLEAN, k \in MetaKeyInputs, d \in MetaDataInputs :
          CallSetClassMeta(h, r, k, d)
    \/ \E h \in HashInputs, k \in MetaKeyInputs : CallGetClassMeta(h, k)
    \/ \E h \in ClassTypes, i \in {0, 1}, r \in BOOLEAN, k \in MetaKeyInputs :
          CallSetMemberMeta(h, i, r, k, "b")
    \/ \E h \in ClassTypes, i \in 0 .. 2, k \in MetaKeyInputs : CallGetMemberMeta(h, i, k)
    \/ \E h \in InstanceTypes, i \in 0 .. 2, t \in ValueTypes : GetValue(h, i, t)
    \/ \E h \in InstanceTypes, i \in 0 .. 2, t \in ValueTypes :
          \E v \in ValuesOf(t) : SetValue(h, i, t, v)

Spec == Init /\ [][Next]_vars

----------------------------------------------------------------------------
(* Properties *)

\* The registry of an initialised program
Registry == g_reflect[1]

\* main() made a call in this step and it got past g_reflect->
Called(op) == ops' = ops + 1 /\ g_reflect # nullptr /\ last'.op = op

\* C1: round trip. A GetValue<T> of a member right after a successful
\* SetValue<T>(instance, member, v) of the same member of the same instance
\* succeeds and returns v.
C1_RoundTrip ==
    [][(/\ pc = "main" /\ last.op = "SetValue"
        /\ Called("GetValue")
        /\ last'.class_ptr = last.class_ptr
        /\ last'.member_data = last.member_data
        /\ last'.type = last.type)
       => (pc' = "main" /\ last'.ret = last.value)]_vars

\* A non-zero int was read back from the zero-initialised instance
C1_Witness ==
    /\ pc = "main" /\ last.op = "GetValue"
    /\ last.type = MEMBER_TYPE_INT /\ last.ret = 3

\* C2: type mismatch. GetValue<T> / SetValue<T> on a member whose hash_code
\* is not T's aborts: GetValue returns nothing, SetValue leaves the instance
\* as it was; for a member not named "unknown" it is the type assertion
\* that fails.
C2_TypeMismatch ==
    [][(/\ (Called("GetValue") \/ Called("SetValue"))
        /\ last'.type # last'.member_data.hash_code)
       => (/\ pc' = "abort"
           /\ inst' = inst
           /\ "ret" \notin DOMAIN last'
           /\ (last'.member_data.name # NameUnknown =>
                 last'.failed \in {"Did not request correct return type!",
                                   "Did not pass correct value type!"}))]_vars

\* SetValue<T> aborted on a registered member of another type
C2_Witness ==
    /\ pc = "abort" /\ last.op = "SetValue"
    /\ last.ref.kind = "members"
    /\ last.member_data.name # NameUnknown
    /\ last.member_data.hash_code # 0
    /\ last.type # last.member_data.hash_code

\* C3: field not found. GetValue<T> / SetValue<T> on the unknown_member
\* returned by a missed GetMemberData fails the "Could not find member
\* variable!" assertion whatever T is, and the instance is unchanged.
C3_FieldNotFound ==
    [][(/\ (Called("GetValue") \/ Called("SetValue"))
        /\ last'.ref = UnknownMemberRef)
       => (/\ pc' = "abort"
           /\ last'.failed = "Could not find member variable!"
           /\ inst' = inst
           /\ "ret" \notin DOMAIN last')]_vars

\* GetValue<char> aborted on the sentinel of a missed lookup
C3_Witness ==
    /\ pc = "abort" /\ last.op = "GetValue"
    /\ last.ref = UnknownMemberRef
    /\ last.type = MEMBER_TYPE_CHAR

\* C4: once g_reflect is initialised, GetClassData by type, by hash or by name
\* that matches no registered class returns unknown_class (hash_code 0, name
\* "unknown") and the program keeps running.
C4_RecordMissSentinel ==
    (last.op = "GetClassData" /\ pc # "fault") =>
        LET miss == IF last.by = "name"
                    THEN \A h \in DOMAIN Registry.classes :
                            Registry.classes[h].name # last.class_name
                    ELSE last.hash_id \notin DOMAIN Registry.classes
        IN  miss => /\ pc = "main"
                    /\ last.ref = UnknownClassRef
                    /\ last.ret.hash_code = 0
                    /\ last.ret.name = NameUnknown

\* A by-name lookup missed while classes were registered
C4_Witness ==
    /\ pc = "main" /\ last.op = "GetClassData" /\ last.by = "name"
    /\ last.class_name = NameNope
    /\ DOMAIN Registry.classes # {}
    /\ last.ret = unknown_class

\* C5: GetMemberData returns unknown_member on every miss: an index that is
\* negative or not below the number of registered members, a name that no
\* registered member of the class has, or a class hash never registered.
C5_FieldMissSentinel ==
    (last.op = "GetMemberData" /\ pc # "fault") =>
        LET map == Registry.members[last.hash_id]
            miss == \/ last.hash_id \notin DOMAIN Registry.classes
                    \/ /\ last.by = "index"
                       /\ (last.member_index < 0
                           \/ last.member_index >= Cardinality(DOMAIN map))
                    \/ /\ last.by = "name"
                       /\ \A o \in DOMAIN map : map[o].name # last.member_name
        IN  miss => /\ pc = "main"
                    /\ last.ref = UnknownMemberRef
                    /\ last.ret = unknown_member

\* An index equal to the number of registered members missed
C5_Witness ==
    /\ pc = "main" /\ last.op = "GetMemberData" /\ last.by = "index"
    /\ last.hash_id \in DOMAIN Registry.classes
    /\ Cardinality(DOMAIN Registry.members[last.hash_id]) = 2
    /\ last.member_index = 2
    /\ last.ret = unknown_member

\* C6: for every registered class the stored member_count equals the number
\* of offsets registered for it by RegisterMember.
C6_MemberCountInvariant ==
    g_reflect # nullptr =>
        \A h \in DOMAIN Registry.classes :
            Registry.classes[h].member_count =
                IF h \in DOMAIN Registry.members
                THEN Cardinality(DOMAIN Registry.members[h]) ELSE 0

\* C7: a RegisterMember at an offset that already holds a member of the class
\* succeeds, keeps the set of registered offsets, and leaves the second
\* call's MemberData at that offset; after two such calls in a row
\* member_count is what it was after the first.
C7_OffsetCollision ==
    [][(/\ Called("RegisterMember")
        /\ last'.class_data.hash_code \in DOMAIN Registry.members
        /\ last'.member_data.offset
              \in DOMAIN Registry.members[last'.class_data.hash_code])
       => LET h == last'.class_data.hash_code
              o == last'.member_data.offset
          IN  /\ pc' = "main"
              /\ DOMAIN g_reflect'[1].members[h] = DOMAIN Registry.members[h]
              /\ g_reflect'[1].members[h][o] = last'.member_data
              /\ g_reflect'[1].classes[h].member_count
                    = Cardinality(DOMAIN g_reflect'[1].members[h])
              /\ (/\ pc = "main" /\ last.op = "RegisterMember"
                  /\ last.class_data.hash_code = h
                  /\ last.member_data.offset = o)
                 => g_reflect'[1].classes[h].member_count
                       = Registry.classes[h].member_count]_vars

\* A RegisterMember call replaced the member the registration function had
\* put at offset 0, and the class still counts two members
C7_Witness ==
    /\ pc = "main" /\ last.op = "RegisterMember"
    /\ last.class_data.hash_code = HashWidget
    /\ last.member_data.offset = 0
    /\ last.member_data.name = NameIsOn
    /\ Registry.members[HashWidget][0] = last.member_data
    /\ DOMAIN Registry.members[HashWidget] = {0, Offsetof(NameIsOn)}
    /\ Registry.classes[HashWidget].member_count = 2

\* C8: RegisterMember for a class hash that was never registered with
\* RegisterClass aborts and leaves classes and members unchanged.
C8_RegistrationOrder ==
    [][(/\ Called("RegisterMember")
        /\ last'.class_data.hash_code \notin DOMAIN Registry.classes)
       => (pc' = "abort" /\ g_reflect' = g_reflect)]_vars

\* RegisterMember aborted for a non-zero class hash that is not registered
C8_Witness ==
    /\ pc = "abort" /\ last.op = "RegisterMember"
    /\ last.class_data.hash_code # 0
    /\ last.class_data.hash_code \notin DOMAIN Registry.classes

\* C9: RegisterClass with hash_code 0 aborts and leaves the registry
\* unchanged, and no ClassData stored in classes has hash_code 0.
C9_NoZeroHash ==
    /\ [](g_reflect # nullptr =>
             \A h \in DOMAIN Registry.classes :
                 h # 0 /\ Registry.classes[h].hash_code # 0)
    /\ [][(Called("RegisterClass") /\ last'.class_data.hash_code = 0)
          => (pc' = "abort" /\ g_reflect' = g_reflect)]_vars

\* RegisterClass aborted on a ClassData with hash_code 0 while classes
\* were registered
C9_Witness ==
    /\ pc = "abort" /\ last.op = "RegisterClass"
    /\ last.class_data.hash_code = 0
    /\ DOMAIN Registry.classes # {}

C11_NthByOffset ==
    (last.op = "GetMemberData" /\ pc = "main" /\ last.by = "index") =>
        LET map == Registry.members[last.hash_id]
        IN  (0 <= last.member_index
             /\ last.member_index < Cardinality(DOMAIN map))
            => /\ last.ref.kind = "members"
               /\ last.ref.hash = last.hash_id
               /\ last.ref.offset \in DOMAIN map
               /\ Cardinality({o \in DOMAIN map : o < last.ref.offset})
                     = last.member_index
               /\ last.ret = map[last.ref.offset]

\* Gadget declares is_on before count: index 0 returns count, the member at
\* the smallest offset, whose stored index is 1
C11_Witness ==
    /\ pc = "main" /\ last.op = "GetMemberData" /\ last.by = "index"
    /\ last.hash_id = HashGadget
    /\ last.member_index = 0
    /\ last.ret.name = NameCount
    /\ last.ret.offset = 0
    /\ last.ret.index = 1

\* The members of a registration function are declared in strictly
\* increasing offset order
DeclaredIncreasing(decl) ==
    \A i, j \in 1..Len(decl) : i < j => Offsetof(decl[i]) < Offsetof(decl[j])

\* C12: for a struct whose registration function declares its members in
\* strictly increasing offset order, GetMemberData(hash, F.index) after
\* InitializeReflection returns the MemberData with F's declared name, for
\* every declared member F (F.index being its position in the declaration).
C12_IndexLookupDeclaredOrder ==
    [][(/\ pc = "main" /\ last.op = "InitializeReflection"
        /\ Called("GetMemberData") /\ last'.by = "index"
        /\ \E f \in 1..Len(g_register_list) : g_register_list[f] = last'.hash_id
        /\ DeclaredIncreasing(DeclaredMembers(InitiateClass(last'.hash_id), 1))
        /\ last'.member_index >= 0
        /\ last'.member_index
              < Len(DeclaredMembers(InitiateClass(last'.hash_id), 1)))
       => (/\ pc' = "main"
           /\ last'.ret.index = last'.member_index
           /\ last'.ret.name =
                 DeclaredMembers(InitiateClass(last'.hash_id), 1)
                     [last'.member_index + 1])]_vars

\* Widget declares count, then is_on: index 1 returns is_on
C12_Witness ==
    /\ pc = "main" /\ last.op = "GetMemberData" /\ last.by = "index"
    /\ last.hash_id = HashWidget
    /\ DeclaredMembers(InitiateWidget, 1) = <<NameCount, NameIsOn>>
    /\ last.member_index = 1
    /\ last.ret.name = NameIsOn
    /\ last.ret.index = 1
    /\ last.ret.title = TitleOverride

\* The position of the member at offset o in the offset-ordered member map
Position(map, o) == Cardinality({p \in DOMAIN map : p < o})

\* C13 as stated: for every registered member F of a class, GetMemberData by
\* F's name and GetMemberData by F's position both return F's content (name,
\* title, index, hash_code, offset, size, meta data).
C13_NameAndPositionAgree ==
    (last.op = "GetMemberData" /\ pc = "main") =>
        LET map == Registry.members[last.hash_id]
        IN  \A o \in DOMAIN map :
               /\ (last.by = "name" /\ last.member_name = map[o].name)
                     => last.ret = map[o]
               /\ (last.by = "index" /\ last.member_index = Position(map, o))
                     => last.ret = map[o]

\* C13 amended: for every registered member F of a class whose name no member
\* at a smaller offset of that class has, GetMemberData by F's name and
\* GetMemberData by F's position both return F's content.
C13_NameAndPositionAgreeFirst ==
    (last.op = "GetMemberData" /\ pc = "main") =>
        LET map == Registry.members[last.hash_id]
        IN  \A o \in DOMAIN map :
               (\A p \in DOMAIN map : p < o => map[p].name # map[o].name)
               => /\ (last.by = "name" /\ last.member_name = map[o].name)
                        => last.ret = map[o]
                  /\ (last.by = "index" /\ last.member_index = Position(map, o))
                        => last.ret = map[o]

\* Two members of Widget are named is_on; the lookup by name returned the one
\* at offset 0, which is also what position 0 holds
C13_Witness ==
    /\ pc = "main" /\ last.op = "GetMemberData" /\ last.by = "name"
    /\ last.hash_id = HashWidget
    /\ last.member_name = NameIsOn
    /\ DOMAIN Registry.members[HashWidget] = {0, Offsetof(NameIsOn)}
    /\ Registry.members[HashWidget][Offsetof(NameIsOn)].name = NameIsOn
    /\ last.ref = MemberRef(HashWidget, 0)
    /\ last.ret = Registry.members[HashWidget][0]
    /\ Position(Registry.members[HashWidget], 0) = 0

\* C14: for every registered class whose name no other registered class has,
\* GetClassData by the class' type or instance, by its hash and by its name
\* all return the ClassData stored for it.
C14_LookupKeysAgree ==
    (last.op = "GetClassData" /\ pc = "main") =>
        \A h \in DOMAIN Registry.classes :
           (\A g \in DOMAIN Registry.classes :
               g # h => Registry.classes[g].name # Registry.classes[h].name)
           => ((\/ last.by \in {"type", "hash"} /\ last.hash_id = h
                \/ last.by = "name" /\ last.class_name = Registry.classes[h].name)
               => (last.ref = ClassRef(h) /\ last.ret = Registry.classes[h]))

\* Both structs are registered under their own names; the lookup by the name
\* of Gadget returned the ClassData stored under Gadget's hash
C14_Witness ==
    /\ pc = "main" /\ last.op = "GetClassData" /\ last.by = "name"
    /\ DOMAIN Registry.classes = {HashWidget, HashGadget}
    /\ Registry.classes[HashWidget].name = NameWidget
    /\ last.class_name = NameGadget
    /\ last.ref = ClassRef(HashGadget)
    /\ last.ret = Registry.classes[HashGadget]
    /\ last.ret.title = TitleOverride

\* C15: a call of InitializeReflection invokes the registration functions of
\* g_register_list, each once and in the order they were appended, and
\* returns.
C15_InitializeCallsEachOnceInOrder ==
    [][(ops' = ops + 1 /\ last'.op = "InitializeReflection")
       => (/\ last'.called = g_register_list
           /\ pc' = "main")]_vars

\* Gadget was appended before Widget and both were invoked, in that order
C15_Witness ==
    /\ pc = "main" /\ last.op = "InitializeReflection"
    /\ g_register_list = <<HashGadget, HashWidget>>
    /\ last.called = <<HashGadget, HashWidget>>
    /\ DOMAIN Registry.classes = {HashWidget, HashGadget}

\* This step is a call of InitializeReflection
InitializeStep == ops' = ops + 1 /\ last'.op = "InitializeReflection"

\* C16 as stated: a registered class is never removed. Once a class hash is
\* registered, GetClassData of it is not unknown_class in any later state,
\* whatever is called next, a repeated InitializeReflection included.
C16_NeverRemoved ==
    [][g_reflect # nullptr =>
          \A h \in DOMAIN Registry.classes :
              GetClassDataHash(g_reflect'[1], h) # UnknownClassRef]_vars

\* C16 amended: a registered class is removed by no call other than
\* InitializeReflection, and a repeated InitializeReflection keeps every
\* class whose registration function is in g_register_list.
C16_RemovedOnlyByInitialize ==
    [][g_reflect # nullptr =>
          \A h \in DOMAIN Registry.classes :
              (\/ ~InitializeStep
               \/ \E f \in 1..Len(g_register_list) : g_register_list[f] = h)
              => GetClassDataHash(g_reflect'[1], h) # UnknownClassRef]_vars

\* After a repeated InitializeReflection Widget, whose registration function
\* is in the list, is registered and Gadget, registered by a RegisterClass
\* call in between, is not
C16_Witness ==
    /\ pc = "main" /\ last.op = "InitializeReflection" /\ ops = 3
    /\ g_register_list = <<HashWidget>>
    /\ GetClassDataHash(Registry, HashWidget) = ClassRef(HashWidget)
    /\ GetClassDataHash(Registry, HashGadget) = UnknownClassRef

\* C17: lookups are pure. A GetClassData or GetMemberData call (by index or
\* by name, hit or miss, also for a class hash never registered) leaves
\* classes and members unchanged, the set of class hashes that have an entry
\* in members included.
C17_LookupsPure ==
    [][(Called("GetClassData") \/ Called("GetMemberData"))
       => (g_reflect' = g_reflect /\ pc' = "main")]_vars

\* The ClassData or MemberData a meta data call of this step was made on
MetaObject ==
    IF last'.op \in {"GetClassMeta", "SetClassMeta"}
    THEN DerefClass(g_reflect'[1], last'.ref)
    ELSE DerefMember(g_reflect'[1], last'.ref)

\* The object holds data under the key, in the map of the key's type
HasMeta(obj, key) ==
    IF key.kind = "int" THEN key.i \in DOMAIN obj.meta_int_map
    ELSE key.s \in DOMAIN obj.meta_string_map

\* The data the object holds under the key
MetaOf(obj, key) ==
    IF key.kind = "int" THEN obj.meta_int_map[key.i] ELSE obj.meta_string_map[key.s]

\* C18: GetClassMeta / GetMemberMeta return the string most recently stored
\* under the key on that object by SetClassMeta / SetMemberMeta, and the
\* empty string when the object holds nothing under the key or has
\* hash_code 0, as unknown_class and unknown_member have.
C18_GetMetaReturnsLastSet ==
    [][(Called("GetClassMeta") \/ Called("GetMemberMeta"))
       => /\ pc' = "main"
          /\ MetaObject.hash_code = 0 => last'.ret = ""
          /\ ~HasMeta(MetaObject, last'.key) => last'.ret = ""
          /\ (/\ pc = "main"
              /\ last.op = (IF last'.op = "GetClassMeta" THEN "SetClassMeta"
                            ELSE "SetMemberMeta")
              /\ last.by_reference
              /\ last.ref = last'.ref
              /\ last.key = last'.key
              /\ MetaObject.hash_code # 0)
             => last'.ret = last.data]_vars

\* Widget's registration function stored "a" under the description key; a
\* later SetClassMeta stored "b", which GetClassMeta returned
C18_Witness ==
    /\ pc = "main" /\ last.op = "GetClassMeta"
    /\ last.ref = ClassRef(HashWidget)
    /\ last.key = IntKey(META_DATA_DESCRIPTION)
    /\ g_register_list = <<HashWidget>>
    /\ Registry.classes[HashWidget].member_count = 2
    /\ last.ret = "b"

\* The member map of a class hash, empty when the hash has no entry
MemberMapOf(R, h) == IF h \in DOMAIN R.members THEN R.members[h] ELSE EmptyMap

\* Two registries hold the same ClassData and MemberData objects
SameSchemas(R1, R2) ==
    /\ R1.classes = R2.classes
    /\ \A h \in DOMAIN R1.members \cup DOMAIN R2.members :
          MemberMapOf(R1, h) = MemberMapOf(R2, h)

\* The objects later lookups of the referenced object return, by every key
LaterLookups(R, ref) ==
    IF ref.kind = "classes"
    THEN {DerefClass(R, GetClassDataT(R, ref.hash)),
          DerefClass(R, GetClassDataHash(R, ref.hash))}
    ELSE {DerefMember(R, GetMemberDataIndex(R, ref.hash,
                                            Position(R.members[ref.hash],
                                                     ref.offset)).ref)}

\* C19: a meta data write reaches the registry if and only if it is made
\* through a reference into the registry. SetClassMeta / SetMemberMeta on a
\* reference returned by a lookup is seen by every later lookup of that
\* object; on a copy, or on unknown_class / unknown_member, it leaves the
\* stored ClassData and MemberData unchanged.
C19_WriteThroughReference ==
    [][(Called("SetClassMeta") \/ Called("SetMemberMeta"))
       => /\ pc' = "main"
          /\ IF last'.by_reference /\ last'.ref.kind \in {"classes", "members"}
             THEN \A obj \in LaterLookups(g_reflect'[1], last'.ref) :
                     /\ HasMeta(obj, last'.key)
                     /\ MetaOf(obj, last'.key) = last'.data
             ELSE SameSchemas(Registry, g_reflect'[1])]_vars

\* This step is a setter call through a reference to the object, on the key
SetMetaStep(op, ref, key) ==
    /\ Called(op)
    /\ last'.by_reference /\ last'.ref = ref /\ last'.key = key

\* This step is a RegisterClass call for the class hash
RegisterClassStep(h) == Called("RegisterClass") /\ last'.class_data.hash_code = h

\* This step is a RegisterMember call for the class hash and the offset
RegisterMemberStep(h, o) ==
    /\ Called("RegisterMember")
    /\ last'.class_data.hash_code = h /\ last'.member_data.offset = o

\* The class keeps the data it holds under the key
ClassMetaKept(h, key) ==
    /\ h \in DOMAIN g_reflect'[1].classes
    /\ HasMeta(g_reflect'[1].classes[h], key)
    /\ MetaOf(g_reflect'[1].classes[h], key) = MetaOf(Registry.classes[h], key)

\* The member keeps the data it holds under the key
MemberMetaKept(h, o, key) ==
    /\ h \in DOMAIN g_reflect'[1].members
    /\ o \in DOMAIN g_reflect'[1].members[h]
    /\ HasMeta(g_reflect'[1].members[h][o], key)
    /\ MetaOf(g_reflect'[1].members[h][o], key)
          = MetaOf(Registry.members[h][o], key)

\* C20 as stated: meta data of a stored ClassData / MemberData is never
\* pruned. Once a key holds data, no call other than a SetClassMeta /
\* SetMemberMeta on the same object and key removes or changes it; no
\* RegisterClass, RegisterMember, lookup or InitializeReflection does.
C20_MetaNeverPruned ==
    [][g_reflect # nullptr =>
          \A key \in MetaKeyInputs :
             /\ \A h \in DOMAIN Registry.classes :
                   (HasMeta(Registry.classes[h], key)
                    /\ ~SetMetaStep("SetClassMeta", ClassRef(h), key))
                   => ClassMetaKept(h, key)
             /\ \A h \in DOMAIN Registry.members :
                   \A o \in DOMAIN Registry.members[h] :
                      (HasMeta(Registry.members[h][o], key)
                       /\ ~SetMetaStep("SetMemberMeta", MemberRef(h, o), key))
                      => MemberMetaKept(h, o, key)]_vars

\* C20 amended: once a key holds data on a stored ClassData / MemberData, no
\* call removes or changes it other than a setter on the same object and
\* key, a RegisterClass for the same class hash (for a ClassData), a
\* RegisterMember for the same class hash and offset (for a MemberData), or
\* an InitializeReflection; lookups, value accesses and registrations of
\* other classes and offsets never do.
C20_MetaPrunedOnlyByRegistration ==
    [][g_reflect # nullptr =>
          \A key \in MetaKeyInputs :
             /\ \A h \in DOMAIN Registry.classes :
                   (HasMeta(Registry.classes[h], key)
                    /\ ~SetMetaStep("SetClassMeta", ClassRef(h), key)
                    /\ ~RegisterClassStep(h)
                    /\ ~InitializeStep)
                   => ClassMetaKept(h, key)
             /\ \A h \in DOMAIN Registry.members :
                   \A o \in DOMAIN Registry.members[h] :
                      (HasMeta(Registry.members[h][o], key)
                       /\ ~SetMetaStep("SetMemberMeta", MemberRef(h, o), key)
                       /\ ~RegisterMemberStep(h, o)
                       /\ ~InitializeStep)
                      => MemberMetaKept(h, o, key)]_vars

\* Widget holds "b" under the description key, stored after its registration
\* function had stored "a", and a RegisterMember for Widget with a ClassData
\* argument that holds no meta data left it in place
C20_Witness ==
    /\ pc = "main" /\ last.op = "RegisterMember"
    /\ last.class_data.hash_code = HashWidget
    /\ last.class_data.meta_int_map = EmptyMap
    /\ g_register_list = <<HashWidget>>
    /\ HasMeta(Registry.classes[HashWidget], IntKey(META_DATA_DESCRIPTION))
    /\ MetaOf(Registry.classes[HashWidget], IntKey(META_DATA_DESCRIPTION)) = "b"

RECURSIVE OwnerOf(_, _)
\* The member a member-level macro invocation at position i of a
\* registration function belongs to: that of the closest REFLECT_MEMBER
\* before it
OwnerOf(body, i) ==
    IF body[i].macro = "REFLECT_MEMBER" THEN body[i].member ELSE OwnerOf(body, i - 1)

\* What a lookup after the call returns for the class, and for a member by
\* its name
LookedUpClass(R, h) == DerefClass(R, GetClassDataHash(R, h))
LookedUpMember(R, h, name) ==
    DerefMember(GetMemberDataName(R, h, name).R, GetMemberDataName(R, h, name).ref)

\* C21: meta data and title overrides declared in a registration function
\* (class-level ones after REFLECT_CLASS, member-level ones after their
\* REFLECT_MEMBER) are retrievable after InitializeReflection: GetClassMeta /
\* GetMemberMeta on the looked-up ClassData / MemberData returns each declared
\* value for its key, and the looked-up title is the declared one, also for
\* members that were followed by further declarations.
C21_DeclaredMetaRetrievable ==
    [][InitializeStep =>
          \A f \in 1..Len(g_register_list) :
             LET h == g_register_list[f]
                 body == InitiateClass(h)
                 R == g_reflect'[1]
             IN  \A i \in 1..Len(body) :
                    CASE body[i].macro = "CLASS_META_DATA" ->
                            GetClassMeta(LookedUpClass(R, h), body[i].key)
                               = body[i].value
                      [] body[i].macro = "CLASS_META_TITLE" ->
                            LookedUpClass(R, h).title = body[i].title
                      [] body[i].macro = "MEMBER_META_DATA" ->
                            GetMemberMeta(LookedUpMember(R, h, OwnerOf(body, i)),
                                          body[i].key) = body[i].value
                      [] body[i].macro = "MEMBER_META_TITLE" ->
                            LookedUpMember(R, h, OwnerOf(body, i)).title
                               = body[i].title
                      [] OTHER -> TRUE]_vars

\* After InitializeReflection Widget holds its declared description, count
\* its declared icon although is_on was declared after it, and is_on its
\* declared title
C21_Witness ==
    /\ pc = "main" /\ last.op = "InitializeReflection"
    /\ \E f \in 1..Len(g_register_list) : g_register_list[f] = HashWidget
    /\ GetClassMeta(LookedUpClass(Registry, HashWidget),
                    IntKey(META_DATA_DESCRIPTION)) = "a"
    /\ GetMemberMeta(LookedUpMember(Registry, HashWidget, NameCount),
                     StringKey("icon")) = "a"
    /\ LookedUpMember(Registry, HashWidget, NameIsOn).title = TitleOverride
    /\ LookedUpMember(Registry, HashWidget, NameIsOn).index = 1

\* C22: no MemberData stored in the registry has hash_code 0, the "no type"
\* value MEMBER_TYPE_UNKNOWN: RegisterMember never stores such a member.
C22_NoZeroMemberType ==
    g_reflect # nullptr =>
        \A h \in DOMAIN Registry.members :
            \A o \in DOMAIN Registry.members[h] :
                Registry.members[h][o].hash_code # MEMBER_TYPE_UNKNOWN

\* C23: GetMemberData by name returns, among the registered members of the
\* class whose name equals the key, the one at the smallest offset; a member
\* of that name at another offset is never returned.
C23_NameLookupSmallestOffset ==
    (last.op = "GetMemberData" /\ pc = "main" /\ last.by = "name") =>
        LET map == Registry.members[last.hash_id]
        IN  \A o \in DOMAIN map :
               (/\ map[o].name = last.member_name
                /\ \A p \in DOMAIN map : map[p].name = last.member_name => o <= p)
               => (last.ref = MemberRef(last.hash_id, o) /\ last.ret = map[o])

\* Two members of Widget are named count; the lookup returned the one at
\* offset 0, the int, not the char at the larger offset
C23_Witness ==
    /\ pc = "main" /\ last.op = "GetMemberData" /\ last.by = "name"
    /\ last.hash_id = HashWidget
    /\ last.member_name = NameCount
    /\ DOMAIN Registry.members[HashWidget] = {0, Offsetof(NameIsOn)}
    /\ Registry.members[HashWidget][Offsetof(NameIsOn)].name = NameCount
    /\ Registry.members[HashWidget][0].name = NameCount
    /\ last.ref.offset = 0
    /\ last.ret.hash_code = MEMBER_TYPE_INT

\* This step is a lookup call, made with or without a registry
LookupStep == ops' = ops + 1 /\ last'.op \in {"GetClassData", "GetMemberData"}

\* The lookup of this step returned unknown_class / unknown_member, or a
\* ClassData / MemberData stored in the registry for the key it was given
ReturnsSchemaOrSentinel ==
    LET R == g_reflect'[1]
    IN  IF last'.op = "GetClassData"
        THEN \/ last'.ref = UnknownClassRef /\ last'.ret = unknown_class
             \/ /\ last'.ref.kind = "classes"
                /\ last'.ref.hash \in DOMAIN R.classes
                /\ last'.ret = R.classes[last'.ref.hash]
                /\ (last'.by = "name" => last'.ret.name = last'.class_name)
                /\ (last'.by # "name" => last'.ref.hash = last'.hash_id)
        ELSE \/ last'.ref = UnknownMemberRef /\ last'.ret = unknown_member
             \/ /\ last'.ref.kind = "members"
                /\ last'.ref.hash = last'.hash_id
                /\ last'.ref.offset \in DOMAIN R.members[last'.hash_id]
                /\ last'.ret = R.members[last'.hash_id][last'.ref.offset]
                /\ (last'.by = "name" => last'.ret.name = last'.member_name)
                /\ (last'.by = "index" =>
                       Position(R.members[last'.hash_id], last'.ref.offset)
                          = last'.member_index)

\* C24 as stated: GetClassData and GetMemberData complete without a fault
\* and return a registered object or the sentinel in every reachable state,
\* also when InitializeReflection has not been called yet.
C24_LookupsNeverFault ==
    [][LookupStep => (pc' = "main" /\ ReturnsSchemaOrSentinel)]_vars

\* C24 amended: GetClassData and GetMemberData complete without a fault and
\* return a registered object or the sentinel in every reachable state in
\* which InitializeReflection has been called.
C24_LookupsNeverFaultOnceInitialized ==
    [][(LookupStep /\ g_reflect # nullptr)
       => (pc' = "main" /\ ReturnsSchemaOrSentinel)]_vars

\* A lookup by hash for Gadget, which is not registered while Widget is,
\* returned unknown_class and main() goes on
C24_Witness ==
    /\ pc = "main" /\ last.op = "GetClassData" /\ last.by = "hash"
    /\ last.hash_id = HashGadget
    /\ DOMAIN Registry.classes = {HashWidget}
    /\ last.ret = unknown_class

\* C25: after InitializeReflection, the members stored by a registration
\* function with n REFLECT_MEMBER declarations carry the index values
\* 0 .. n-1 in declaration order; the MEMBER_META_TITLE / MEMBER_META_DATA
\* invocations that follow a member leave its index as declared.
C25_IndexInDeclarationOrder ==
    [][InitializeStep =>
          \A f \in 1..Len(g_register_list) :
             LET h == g_register_list[f]
                 decl == DeclaredMembers(InitiateClass(h), 1)
                 map == g_reflect'[1].members[h]
             IN  /\ {map[o].index : o \in DOMAIN map} = 0 .. (Len(decl) - 1)
                 /\ \A k \in 1..Len(decl) :
                       map[Offsetof(decl[k])].name = decl[k]
                       /\ map[Offsetof(decl[k])].index = k - 1]_vars

\* After InitializeReflection Gadget's second declared member, count, whose
\* title was overridden, has index 1 at offset 0, and Widget's first, count,
\* which carries meta data, has index 0
C25_Witness ==
    /\ pc = "main" /\ last.op = "InitializeReflection"
    /\ last.called = <<HashWidget, HashGadget>>
    /\ Registry.members[HashGadget][Offsetof(NameCount)].index = 1
    /\ Registry.members[HashGadget][Offsetof(NameCount)].title = TitleLiteral
    /\ Registry.members[HashGadget][Offsetof(NameIsOn)].index = 0
    /\ Registry.members[HashWidget][Offsetof(NameCount)].index = 0
    /\ GetMemberMeta(Registry.members[HashWidget][Offsetof(NameCount)],
                     StringKey("icon")) = "a"

\* C26: InitializeReflection leaves g_register_list unchanged: after it
\* returns the list holds the same registration functions in the same order
\* as before the call.
C26_InitializeKeepsRegisterList ==
    [][InitializeStep => g_register_list' = g_register_list]_vars

\* InitializeReflection has been called twice and the list still holds both
\* registration functions, Gadget's first
C26_Witness ==
    /\ pc = "main" /\ last.op = "InitializeReflection" /\ ops = 2
    /\ g_register_list = <<HashGadget, HashWidget>>
    /\ last.called = g_register_list

\* The registry the first InitializeReflection of the process builds:
\* g_reflect is nullptr until then and g_register_list is complete when
\* main() starts
AfterFirstInitialize ==
    RunRegisterList([R |-> NewDrReflect, ok |-> TRUE, called |-> <<>>],
                    g_register_list, 1).R

\* C27: a repeated InitializeReflection resets the registry: its classes,
\* members and meta data are again what they were right after the first
\* InitializeReflection, whatever RegisterClass, RegisterMember or
\* Set...Meta calls were made in between.
C27_ReinitializeResets ==
    [][(InitializeStep /\ g_reflect # nullptr)
       => (pc' = "main" /\ g_reflect'[1] = AfterFirstInitialize)]_vars

\* The third call of main() was InitializeReflection, on a registry that
\* existed already; only Widget is in the list and only Widget is registered,
\* with the meta data its registration function declares
C27_Witness ==
    /\ pc = "main" /\ last.op = "InitializeReflection" /\ ops = 3
    /\ g_register_list = <<HashWidget>>
    /\ DOMAIN Registry.classes = {HashWidget}
    /\ DOMAIN Registry.members = {HashWidget}
    /\ GetClassMeta(Registry.classes[HashWidget], IntKey(META_DATA_DESCRIPTION)) = "a"
    /\ Registry.classes[HashWidget].member_count = 2

\* C28: a RegisterMember(class_data, member_data) that returns changes only
\* the entry at member_data.offset of that class's member map and the stored
\* member_count of that class: the stored ClassData keeps its name, title and
\* meta data also when the passed class_data differs from it, and every other
\* class and every other member is unchanged.
C28_RegisterMemberFrame ==
    [][(Called("RegisterMember") /\ pc' = "main") =>
          LET h == last'.class_data.hash_code
              o == last'.member_data.offset
              R1 == Registry
              R2 == g_reflect'[1]
          IN  /\ DOMAIN R2.classes = DOMAIN R1.classes
              /\ \A k \in DOMAIN R1.classes \ {h} : R2.classes[k] = R1.classes[k]
              /\ R2.classes[h] =
                    [R1.classes[h] EXCEPT
                        !.member_count = Cardinality(DOMAIN R2.members[h])]
              /\ DOMAIN R2.members = DOMAIN R1.members \cup {h}
              /\ \A k \in DOMAIN R1.members \ {h} : R2.members[k] = R1.members[k]
              /\ DOMAIN R2.members[h] = DOMAIN MemberMapOf(R1, h) \cup {o}
              /\ \A p \in DOMAIN MemberMapOf(R1, h) \ {o} :
                    R2.members[h][p] = R1.members[h][p]
              /\ R2.members[h][o] = last'.member_data]_vars

\* RegisterMember was called for Widget with a class_data named differently
\* from the stored one and a member at is_on's offset; Widget's stored name,
\* the member at offset 0 and Gadget are as registered
C28_Witness ==
    /\ pc = "main" /\ last.op = "RegisterMember"
    /\ last.class_data.hash_code = HashWidget
    /\ last.class_data.name = NameNope
    /\ last.member_data.offset = Offsetof(NameIsOn)
    /\ last.member_data.name = NameCount
    /\ DOMAIN Registry.classes = {HashWidget, HashGadget}
    /\ Registry.classes[HashWidget].name = NameWidget
    /\ Registry.members[HashWidget][Offsetof(NameIsOn)] = last.member_data
    /\ Registry.members[HashWidget][0].name = NameCount
    /\ Registry.members[HashGadget][Offsetof(NameIsOn)].name = NameIsOn

\* C29: a SetValue<T>(instance, F, v) that passes its assertions changes
\* only the cells of the instance at F's offset: every cell outside
\* [F.offset, F.offset + sizeof(T)) is as before, every other registered
\* member of the instance that does not overlap F reads the same value as
\* before, other instances are untouched and the registry is unchanged.
C29_SetValueFrame ==
    [][(Called("SetValue") /\ pc' = "main") =>
          LET h == last'.class_ptr
              F == last'.member_data
              map == Registry.members[h]
          IN  /\ g_reflect' = g_reflect
              /\ \A k \in DOMAIN inst \ {h} : inst'[k] = inst[k]
              /\ \A a \in DOMAIN inst[h] :
                    (a < F.offset \/ a >= F.offset + Sizeof(last'.type))
                    => inst'[h][a] = inst[h][a]
              /\ \A o \in DOMAIN map :
                    (o + map[o].size <= F.offset \/ F.offset + F.size <= o)
                    => ReadAs(inst'[h], o, map[o].hash_code)
                          = ReadAs(inst[h], o, map[o].hash_code)]_vars

\* SetValue<char> of is_on stored 1 while count, set to 3 before, still reads 3
C29_Witness ==
    /\ pc = "main" /\ last.op = "SetValue" /\ last.failed = ""
    /\ last.class_ptr = HashWidget
    /\ last.member_data.name = NameIsOn
    /\ last.member_data.offset = Offsetof(NameIsOn)
    /\ last.type = MEMBER_TYPE_CHAR
    /\ last.value = 1
    /\ ReadAs(inst[HashWidget], Offsetof(NameIsOn), MEMBER_TYPE_CHAR) = 1
    /\ ReadAs(inst[HashWidget], Offsetof(NameCount), MEMBER_TYPE_INT) = 3

\* C30: every MemberData stored in the registry is accessible: for each
\* registered member F, whatever its name, GetValue<T> and SetValue<T> with
\* T equal to F's hash_code pass their assertions; in particular they do not
\* fail with "Could not find member variable!".
C30_StoredMemberAccessible ==
    [][(/\ (Called("GetValue") \/ Called("SetValue"))
        /\ last'.ref # UnknownMemberRef
        /\ last'.type = last'.member_data.hash_code)
       => pc' = "main"]_vars

====
